---- MODULE Spec2Model ----
(***************************************************************************)
(* Model of the process monitor of main.go: the collector goroutine        *)
(* (startCollector / collectOnce), the per-process series store            *)
(* (ProcessStats) and the snapshot exporter (metricsHandler).              *)
(*                                                                         *)
(* Go maps are functions over a finite domain; a Go slice is a sequence.   *)
(* File contents are modelled after tokenisation (strings.Fields /         *)
(* strings.Split), a token being either a decimal number or something      *)
(* strconv.ParseInt rejects.                                               *)
(***************************************************************************)
EXTENDS Integers, Sequences, FiniteSets, TLC

\* main.go:17
maxSamples == 300

\* ------------------------------------------------------------- bounds
\* Ticks of the ticker a run may take when one name and one kernel source
\* are monitored.
MaxTicks == 3
\* Ticks a run may take when several names or several sources are monitored.
MaxTicksWide == 2
\* Ticks a run may take when two names are monitored and MaxReqsPair requests
\* are served at a time.
MaxTicksBusy == 1
\* Exporter requests that may be in progress at the same time.
MaxReqs == 1
\* The same, in the runs that monitor two names.
MaxReqsPair == 2
\* Milliseconds the wall clock may run ahead of the ticker.
MaxAhead == 1
\* Length of the all-absent history a warm run starts from.
Warm == 299

\* ------------------------------------------------------------- Go maps
EmptyMap == [k \in {} |-> 0]
\* m[k] of a Go map[string]int64: the zero value when the key is missing.
Get(m, k) == IF k \in DOMAIN m THEN m[k] ELSE 0
\* m[k] = v
Put(m, k, v) == [x \in (DOMAIN m) \cup {k} |-> IF x = k THEN v ELSE m[x]]
\* for k, v := range src { dst[k] = v }
Merge(dst, src) ==
    [x \in (DOMAIN dst) \cup (DOMAIN src) |-> IF x \in DOMAIN src THEN src[x] ELSE dst[x]]

\* ------------------------------------------------------------- catalog
\* main.go:26-37
allMetrics ==
    {"cpu", "rss", "vsize", "threads", "fds", "read_bytes", "write_bytes",
     "minflt", "majflt", "ctx_switch"}
\* The catalog entries whose notes say "delta".
Cumulative == {"cpu", "read_bytes", "write_bytes", "minflt", "majflt", "ctx_switch"}
Absolute == allMetrics \ Cumulative
Sources == {"stat", "statm", "io", "fd", "status"}
\* The source column of the catalog.
SourceOf(m) ==
    CASE m \in {"cpu", "minflt", "majflt", "threads"} -> "stat"
      [] m \in {"rss", "vsize"} -> "statm"
      [] m \in {"read_bytes", "write_bytes"} -> "io"
      [] m = "fds" -> "fd"
      [] m = "ctx_switch" -> "status"
      [] OTHER -> "none"

\* ------------------------------------------------------------- tokens
Num(n) == [k |-> "num", n |-> n]
Bad == [k |-> "bad", n |-> 0]
\* strconv.ParseInt(tok, 10, 64): the value, 0 with an error on bad syntax.
ParseInt(tok) == [v |-> IF tok.k = "num" THEN tok.n ELSE 0, err |-> tok.k # "num"]

\* ------------------------------------------------------------- lock holders
NoOne == <<"free", 0>>
ByCollector == <<"collector", 0>>
ByReq(r) == <<"req", r>>

VARIABLES
    metricsSet,     \* main.go:78   selected metric names
    statsMap,       \* main.go:75   name -> ProcessStats
    statsMapMu,     \* main.go:76   holders of the read lock
    pc,             \* collector goroutine: position
    todo,           \* names the range loop of this tick has not visited
    name,           \* collectOnce: name
    pid, ts,        \* collectOnce: locals
    prevRaw, initialized, values, newRaw,
    now,            \* wall clock, milliseconds
    ahead,          \* how far this run lets the wall clock run ahead
    ticks,          \* ticks of the ticker received since start
    req,            \* metricsHandler: one record per request in progress
    got,            \* history: kernel sources read in this collectOnce
    hist            \* history: per name, every sample appended with its inputs

vars ==
    <<metricsSet, statsMap, statsMapMu, pc, todo, name, pid, ts, prevRaw,
      initialized, values, newRaw, now, ahead, ticks, req, got, hist>>

\* A lookup that an unknown name in the selection turns on for every metric.
hasMetricLoose(m) == m \in metricsSet \/ ~(metricsSet \subseteq allMetrics)

\* main.go:81-83
hasMetric(m) == m \in metricsSet

Names == DOMAIN statsMap

\* The requests the HTTP server may be serving.
Reqs == DOMAIN req

\* ------------------------------------------------------------- kernel sources
\* What one read of a kernel source can return. `age` distinguishes two
\* moments of a process's life: counters differ between them.
Ages == {1, 2}

\* gops.Processes(): the ids a process of this executable name can be running
\* under. "alpha" is restarted now and then, under another id.
Running(n) == IF n = "alpha" THEN {100, 105} ELSE {200}

\* main.go:85-93: the id getProcessPID can return, 0 when none is running.
getProcessPID(n) == {0} \cup Running(n)

\* strings.Fields of /proc/<pid>/stat: field i of Go is position i + 1.
StatFields(a) == [i \in 1..20 |-> Num(10 * i + a)]
\* A stat line cut short of its 20th field.
StatShort(a) == SubSeq(StatFields(a), 1, 19)
\* A stat line whose counters are not decimal numbers.
StatGarbled(a) ==
    [i \in 1..20 |-> IF i \in {10, 12, 14, 15, 20} THEN Bad ELSE Num(10 * i + a)]
StatReads ==
    {[err |-> TRUE, fields |-> <<>>]}
    \cup {[err |-> FALSE, fields |-> StatFields(a)] : a \in Ages}
    \cup {[err |-> FALSE, fields |-> StatShort(1)],
          [err |-> FALSE, fields |-> StatGarbled(1)]}

\* strings.Fields of /proc/<pid>/statm.
StatmFields(a) == <<Num(1000 + a), Num(500 + a)>>
StatmReads ==
    {[err |-> TRUE, fields |-> <<>>]}
    \cup {[err |-> FALSE, fields |-> StatmFields(a)] : a \in Ages}
    \cup {[err |-> FALSE, fields |-> <<Num(1001)>>],
          [err |-> FALSE, fields |-> <<Bad, Bad>>]}

\* One line of /proc/<pid>/io after TrimSpace and SplitN(": ", 2), or one line
\* of /proc/<pid>/status after strings.Fields: the number of parts, the first
\* part and the second part as a token.
Line(k, tok) == [len |-> 2, key |-> k, val |-> tok]
Blank == [len |-> 0, key |-> "", val |-> Bad]
IoLines(a) ==
    <<Line("rchar", Num(7)), Line("read_bytes", Num(4000 + a)),
      Line("write_bytes", Num(8000 + a)), Blank>>
\* read_bytes is not a number and write_bytes is missing.
IoGarbled == <<Line("rchar", Num(7)), Line("read_bytes", Bad), Blank>>
IoReads ==
    {[err |-> TRUE, lines |-> <<>>]}
    \cup {[err |-> FALSE, lines |-> IoLines(a)] : a \in Ages}
    \cup {[err |-> FALSE, lines |-> IoGarbled]}

StatusLines(a) ==
    <<Line("Name:", Bad), Line("voluntary_ctxt_switches:", Num(30 + a)),
      Line("nonvoluntary_ctxt_switches:", Num(60 + a)), Blank>>
\* voluntary_ctxt_switches is not a number and the other line is missing.
StatusGarbled == <<Line("Name:", Bad), Line("voluntary_ctxt_switches:", Bad), Blank>>
StatusReads ==
    {[err |-> TRUE, lines |-> <<>>]}
    \cup {[err |-> FALSE, lines |-> StatusLines(a)] : a \in Ages}
    \cup {[err |-> FALSE, lines |-> StatusGarbled]}

\* ioutil.ReadDir of /proc/<pid>/fd: the number of entries.
FdReads ==
    {[err |-> TRUE, entries |-> 0]}
    \cup {[err |-> FALSE, entries |-> 2 + a] : a \in Ages}

\* ------------------------------------------------------------- derivation
\* The accumulators of one collectOnce: st = [values, newRaw].
\* main.go:132-135 (and 139-142, 146-149, 193-196, 200-203, 236-239):
\*   if initialized { values[m] = raw - prevRaw[m] }; newRaw[m] = raw
\* A delta with its operands swapped.
deltaSwapped(st, m, raw) ==
    [values |-> IF initialized THEN Put(st.values, m, Get(prevRaw, m) - raw)
                ELSE st.values,
     newRaw |-> Put(st.newRaw, m, raw)]

delta(st, m, raw) ==
    [values |-> IF initialized THEN Put(st.values, m, raw - Get(prevRaw, m))
                ELSE st.values,
     newRaw |-> Put(st.newRaw, m, raw)]

\* values[m] = v
absolute(st, m, v) == [st EXCEPT !.values = Put(@, m, v)]

\* main.go:125-156
statBlock(r, st) ==
    IF r.err \/ Len(r.fields) < 20 THEN st
    ELSE
        LET f == r.fields
            s1 == IF hasMetric("cpu")
                  THEN delta(st, "cpu", ParseInt(f[14]).v + ParseInt(f[15]).v)
                  ELSE st
            s2 == IF hasMetric("minflt")
                  THEN delta(s1, "minflt", ParseInt(f[10]).v) ELSE s1
            s3 == IF hasMetric("majflt")
                  THEN delta(s2, "majflt", ParseInt(f[12]).v) ELSE s2
        IN IF hasMetric("threads")
           THEN absolute(s3, "threads", ParseInt(f[20]).v) ELSE s3

\* main.go:162-174
statmBlock(r, st) ==
    IF r.err \/ Len(r.fields) < 2 THEN st
    ELSE
        LET sm == r.fields
            s1 == IF hasMetric("vsize")
                  THEN absolute(st, "vsize", ParseInt(sm[1]).v) ELSE st
        IN IF hasMetric("rss")
           THEN absolute(s1, "rss", ParseInt(sm[2]).v) ELSE s1

\* main.go:181-206
RECURSIVE ioLoop(_, _, _)
ioLoop(lines, i, st) ==
    IF i > Len(lines) THEN st
    ELSE
        LET parts == lines[i]
            val == ParseInt(parts.val)
            s1 == IF parts.len # 2 \/ val.err THEN st
                  ELSE IF parts.key = "read_bytes" /\ hasMetric("read_bytes")
                  THEN delta(st, "read_bytes", val.v)
                  ELSE IF parts.key = "write_bytes" /\ hasMetric("write_bytes")
                  THEN delta(st, "write_bytes", val.v)
                  ELSE st
        IN ioLoop(lines, i + 1, s1)

\* main.go:180-207
ioBlock(r, st) == IF r.err THEN st ELSE ioLoop(r.lines, 1, st)

\* A failed read that discards what the tick has collected so far.
fdBlockDiscards(r, st) ==
    IF r.err THEN [values |-> EmptyMap, newRaw |-> EmptyMap]
    ELSE absolute(st, "fds", r.entries)

\* main.go:213-215
fdBlock(r, st) == IF r.err THEN st ELSE absolute(st, "fds", r.entries)

\* main.go:222-234: acc = [vol, nvol]
RECURSIVE statusLoop(_, _, _)
statusLoop(lines, i, acc) ==
    IF i > Len(lines) THEN acc
    ELSE
        LET f == lines[i]
            a1 == IF f.len < 2 THEN acc
                  ELSE IF f.key = "voluntary_ctxt_switches:"
                  THEN [acc EXCEPT !.vol = ParseInt(f.val).v]
                  ELSE IF f.key = "nonvoluntary_ctxt_switches:"
                  THEN [acc EXCEPT !.nvol = ParseInt(f.val).v]
                  ELSE acc
        IN statusLoop(lines, i + 1, a1)

\* main.go:221-240
statusBlock(r, st) ==
    IF r.err THEN st
    ELSE
        LET acc == statusLoop(r.lines, 1, [vol |-> 0, nvol |-> 0])
        IN delta(st, "ctx_switch", acc.vol + acc.nvol)

\* A trim that keeps one sample too many.
trimKeepsOneMore(s) ==
    IF Len(s) > maxSamples THEN SubSeq(s, Len(s) - maxSamples, Len(s)) ELSE s

\* A trim that keeps the oldest samples instead of the newest.
trimKeepsHead(s) ==
    IF Len(s) > maxSamples THEN SubSeq(s, 1, maxSamples) ELSE s

\* main.go:103-105 and 249-251
trim(s) ==
    IF Len(s) > maxSamples THEN SubSeq(s, Len(s) - maxSamples + 1, Len(s)) ELSE s

\* Sample{Timestamp: t, Values: m}
Sample(t, m) == [t |-> t, m |-> m]

\* ------------------------------------------------------------- start
Stats(w) ==
    [mu |-> NoOne,
     samples |-> [i \in 1..w |-> Sample(i, EmptyMap)],
     prevRaw |-> EmptyMap,
     initialized |-> FALSE]

Entry(sample, p, init, prev, reads, raw) ==
    [s |-> sample, pid |-> p, init |-> init, prev |-> prev, got |-> reads, raw |-> raw]

\* The state once main has parsed its flags and startCollector has registered
\* the names (main.go:428-442, 256-260), after w ticks that found no process,
\* with k requests served at a time and a clock that may run d ahead.
InitWith(names, metrics, w, k, d) ==
    /\ metricsSet = metrics
    /\ statsMap = [n \in names |-> Stats(w)]
    /\ statsMapMu = {}
    /\ pc = "wait"
    /\ todo = {}
    /\ name = ""
    /\ pid = 0
    /\ ts = 0
    /\ prevRaw = EmptyMap
    /\ initialized = FALSE
    /\ values = EmptyMap
    /\ newRaw = EmptyMap
    /\ now = w
    /\ ahead = d
    /\ ticks = w
    /\ req = [r \in 1..k |->
                [pc |-> "idle", todo |-> {}, name |-> "", result |-> EmptyMap]]
    /\ got = EmptyMap
    /\ hist = [n \in names |->
                 [i \in 1..w |->
                    Entry(Sample(i, EmptyMap), 0, FALSE, EmptyMap, EmptyMap, EmptyMap)]]

\* Kernel sources the selection reads.
Selected == {SourceOf(m) : m \in metricsSet} \cap Sources

\* The ticks a run takes, by what it monitors and serves.
TickCap ==
    IF Cardinality(Names) > 1 /\ Cardinality(Reqs) >= MaxReqsPair
    THEN MaxTicksBusy
    ELSE IF Cardinality(Names) > 1 \/ Cardinality(Selected) > 1
    THEN MaxTicksWide ELSE MaxTicks

\* Ticks taken since the start of the run.
Taken == IF ticks >= Warm THEN ticks - Warm ELSE ticks

\* ------------------------------------------------------------- collector
\* main.go:264-265: a tick arrives, the map is read-locked.
StartTick ==
    /\ pc = "wait"
    /\ Taken < TickCap
    /\ ticks' = ticks + 1
    /\ now' = now + 1
    /\ statsMapMu' = statsMapMu \cup {ByCollector}
    /\ todo' = Names
    /\ pc' = "range"
    /\ UNCHANGED <<metricsSet, ahead, statsMap, name, pid, ts, prevRaw, initialized,
                   values, newRaw, req, got, hist>>

\* main.go:266-267: the range loop takes the next name, in any order.
NextName ==
    /\ pc = "range"
    /\ \E n \in todo :
        /\ name' = n
        /\ todo' = todo \ {n}
    /\ pc' = "resolve"
    /\ UNCHANGED <<metricsSet, ahead, statsMap, statsMapMu, pid, ts, prevRaw,
                   initialized, values, newRaw, now, ticks, req, got, hist>>

\* main.go:269: the range loop is over.
EndTick ==
    /\ pc = "range"
    /\ todo = {}
    /\ statsMapMu' = statsMapMu \ {ByCollector}
    /\ pc' = "wait"
    /\ UNCHANGED <<metricsSet, ahead, statsMap, todo, name, pid, ts, prevRaw,
                   initialized, values, newRaw, now, ticks, req, got, hist>>

\* time.Now() at main.go:97, the only place that reads the clock: a reading
\* not before the last one, and within `ahead` of the ticker.
Clock == {t \in now..(now + 1) : t - ticks <= ahead}

\* main.go:96-99, 85-93
Resolve ==
    /\ pc = "resolve"
    /\ \E p \in getProcessPID(name) :
        /\ pid' = p
        /\ pc' = IF p = 0 THEN "absLock" ELSE "copyLock"
    /\ \E t \in Clock :
        /\ now' = t
        /\ ts' = t
    /\ UNCHANGED <<metricsSet, ahead, statsMap, statsMapMu, todo, name,
                   prevRaw, initialized, values, newRaw, ticks, req, got, hist>>

Lock(to) ==
    /\ statsMap[name].mu = NoOne
    /\ statsMap' = [statsMap EXCEPT ![name].mu = ByCollector]
    /\ pc' = to

Unlock(to) ==
    /\ statsMap' = [statsMap EXCEPT ![name].mu = NoOne]
    /\ pc' = to

\* main.go:100
LockAbsent ==
    /\ pc = "absLock"
    /\ Lock("absAppend")
    /\ UNCHANGED <<metricsSet, ahead, statsMapMu, todo, name, pid, ts, prevRaw,
                   initialized, values, newRaw, now, ticks, req, got, hist>>

\* An absence that leaves initialized as it was.
AppendAbsentStaysInitialized ==
    /\ pc = "absAppend"
    /\ statsMap' = [statsMap EXCEPT
                      ![name].samples = Append(@, Sample(ts, EmptyMap))]
    /\ hist' = [hist EXCEPT ![name] =
                  Append(@, Entry(Sample(ts, EmptyMap), 0, FALSE, EmptyMap,
                                  EmptyMap, EmptyMap))]
    /\ pc' = "absTrim"
    /\ UNCHANGED <<metricsSet, ahead, statsMapMu, todo, name, pid, ts, prevRaw,
                   initialized, values, newRaw, now, ticks, req, got>>

\* An absence that also discards the raw values kept from before it.
AppendAbsentDiscardsRaw ==
    /\ pc = "absAppend"
    /\ statsMap' = [statsMap EXCEPT
                      ![name].initialized = FALSE,
                      ![name].prevRaw = EmptyMap,
                      ![name].samples = Append(@, Sample(ts, EmptyMap))]
    /\ hist' = [hist EXCEPT ![name] =
                  Append(@, Entry(Sample(ts, EmptyMap), 0, FALSE, EmptyMap,
                                  EmptyMap, EmptyMap))]
    /\ pc' = "absTrim"
    /\ UNCHANGED <<metricsSet, ahead, statsMapMu, todo, name, pid, ts, prevRaw,
                   initialized, values, newRaw, now, ticks, req, got>>

\* main.go:101-102
AppendAbsent ==
    /\ pc = "absAppend"
    /\ statsMap' = [statsMap EXCEPT
                      ![name].initialized = FALSE,
                      ![name].samples = Append(@, Sample(ts, EmptyMap))]
    /\ hist' = [hist EXCEPT ![name] =
                  Append(@, Entry(Sample(ts, EmptyMap), 0, FALSE, EmptyMap,
                                  EmptyMap, EmptyMap))]
    /\ pc' = "absTrim"
    /\ UNCHANGED <<metricsSet, ahead, statsMapMu, todo, name, pid, ts, prevRaw,
                   initialized, values, newRaw, now, ticks, req, got>>

\* main.go:103-105
TrimAbsent ==
    /\ pc = "absTrim"
    /\ statsMap' = [statsMap EXCEPT ![name].samples = trim(@)]
    /\ pc' = "absUnlock"
    /\ UNCHANGED <<metricsSet, ahead, statsMapMu, todo, name, pid, ts, prevRaw,
                   initialized, values, newRaw, now, ticks, req, got, hist>>

\* collectOnce returns: its locals are gone.
Return ==
    /\ name' = ""
    /\ pid' = 0
    /\ ts' = 0
    /\ prevRaw' = EmptyMap
    /\ initialized' = FALSE
    /\ values' = EmptyMap
    /\ newRaw' = EmptyMap
    /\ got' = EmptyMap

\* An absent branch that returns with the mutex still locked.
UnlockAbsentForgets ==
    /\ pc = "absUnlock"
    /\ pc' = "range"
    /\ Return
    /\ UNCHANGED <<metricsSet, ahead, statsMap, statsMapMu, todo, now, ticks,
                   req, hist>>

\* main.go:106-107
UnlockAbsent ==
    /\ pc = "absUnlock"
    /\ Unlock("range")
    /\ Return
    /\ UNCHANGED <<metricsSet, ahead, statsMapMu, todo, now, ticks, req, hist>>

\* main.go:111
LockCopy ==
    /\ pc = "copyLock"
    /\ Lock("copy")
    /\ UNCHANGED <<metricsSet, ahead, statsMapMu, todo, name, pid, ts, prevRaw,
                   initialized, values, newRaw, now, ticks, req, got, hist>>

\* A collector that starts a new baseline when the process id has changed.
CopyPrevTracksPid ==
    /\ pc = "copy"
    /\ prevRaw' = statsMap[name].prevRaw
    /\ initialized' =
          /\ statsMap[name].initialized
          /\ Len(hist[name]) > 0
          /\ hist[name][Len(hist[name])].pid = pid
    /\ pc' = "copyUnlock"
    /\ UNCHANGED <<metricsSet, ahead, statsMap, statsMapMu, todo, name, pid, ts,
                   values, newRaw, now, ticks, req, got, hist>>

\* main.go:112-116
CopyPrev ==
    /\ pc = "copy"
    /\ prevRaw' = statsMap[name].prevRaw
    /\ initialized' = statsMap[name].initialized
    /\ pc' = "copyUnlock"
    /\ UNCHANGED <<metricsSet, ahead, statsMap, statsMapMu, todo, name, pid, ts,
                   values, newRaw, now, ticks, req, got, hist>>

\* A copy that goes on to the source reads with the mutex still held.
UnlockCopyKeepsMutex ==
    /\ pc = "copyUnlock"
    /\ pc' = "stat"
    /\ values' = EmptyMap
    /\ newRaw' = EmptyMap
    /\ UNCHANGED <<metricsSet, ahead, statsMap, statsMapMu, todo, name, pid,
                   ts, prevRaw, initialized, now, ticks, req, got, hist>>

\* main.go:117-120
UnlockCopy ==
    /\ pc = "copyUnlock"
    /\ Unlock("stat")
    /\ values' = EmptyMap
    /\ newRaw' = EmptyMap
    /\ UNCHANGED <<metricsSet, ahead, statsMapMu, todo, name, pid, ts, prevRaw,
                   initialized, now, ticks, req, got, hist>>

\* The accumulators of collectOnce as the next source block finds them.
Acc == [values |-> values, newRaw |-> newRaw]

\* One source block of collectOnce: skipped when no metric of the source is
\* selected, else one read, with result o.r, that leaves the accumulators o.st.
Read(at, to, src, wanted, outcomes) ==
    /\ pc = at
    /\ pc' = to
    /\ IF wanted
       THEN \E o \in outcomes :
              /\ values' = o.st.values
              /\ newRaw' = o.st.newRaw
              /\ got' = Put(got, src, o.r)
       ELSE UNCHANGED <<values, newRaw, got>>
    /\ UNCHANGED <<metricsSet, ahead, statsMap, statsMapMu, todo, name, pid, ts,
                   prevRaw, initialized, now, ticks, req, hist>>

\* main.go:122-157
ReadStat ==
    Read("stat", "statm", "stat",
         hasMetric("cpu") \/ hasMetric("minflt") \/ hasMetric("majflt")
            \/ hasMetric("threads"),
         {[r |-> r, st |-> statBlock(r, Acc)] : r \in StatReads})

\* main.go:159-175
ReadStatm ==
    Read("statm", "io", "statm", hasMetric("vsize") \/ hasMetric("rss"),
         {[r |-> r, st |-> statmBlock(r, Acc)] : r \in StatmReads})

\* main.go:177-208
ReadIo ==
    Read("io", "fd", "io", hasMetric("read_bytes") \/ hasMetric("write_bytes"),
         {[r |-> r, st |-> ioBlock(r, Acc)] : r \in IoReads})

\* A collector that lists /proc/<pid>/fd whether or not fds is selected.
ReadFdUnasked ==
    Read("fd", "status", "fd", TRUE,
         {[r |-> r, st |-> fdBlock(r, Acc)] : r \in FdReads})

\* main.go:210-216
ReadFd ==
    Read("fd", "status", "fd", hasMetric("fds"),
         {[r |-> r, st |-> fdBlock(r, Acc)] : r \in FdReads})

\* main.go:218-241
ReadStatus ==
    Read("status", "commitLock", "status", hasMetric("ctx_switch"),
         {[r |-> r, st |-> statusBlock(r, Acc)] : r \in StatusReads})

\* main.go:243
LockCommit ==
    /\ pc = "commitLock"
    /\ Lock("commitRaw")
    /\ UNCHANGED <<metricsSet, ahead, statsMapMu, todo, name, pid, ts, prevRaw,
                   initialized, values, newRaw, now, ticks, req, got, hist>>

\* main.go:244-247
CommitRaw ==
    /\ pc = "commitRaw"
    /\ statsMap' = [statsMap EXCEPT
                      ![name].prevRaw = Merge(@, newRaw),
                      ![name].initialized = TRUE]
    /\ pc' = "commitAppend"
    /\ UNCHANGED <<metricsSet, ahead, statsMapMu, todo, name, pid, ts, prevRaw,
                   initialized, values, newRaw, now, ticks, req, got, hist>>

\* An append that puts the new sample in front of the older ones.
AppendSamplePrepends ==
    /\ pc = "commitAppend"
    /\ statsMap' = [statsMap EXCEPT
                      ![name].samples = <<Sample(ts, values)>> \o @]
    /\ hist' = [hist EXCEPT ![name] =
                  Append(@, Entry(Sample(ts, values), pid, initialized, prevRaw,
                                  got, newRaw))]
    /\ pc' = "commitTrim"
    /\ UNCHANGED <<metricsSet, ahead, statsMapMu, todo, name, pid, ts, prevRaw,
                   initialized, values, newRaw, now, ticks, req, got>>

\* main.go:248
AppendSample ==
    /\ pc = "commitAppend"
    /\ statsMap' = [statsMap EXCEPT ![name].samples = Append(@, Sample(ts, values))]
    /\ hist' = [hist EXCEPT ![name] =
                  Append(@, Entry(Sample(ts, values), pid, initialized, prevRaw,
                                  got, newRaw))]
    /\ pc' = "commitTrim"
    /\ UNCHANGED <<metricsSet, ahead, statsMapMu, todo, name, pid, ts, prevRaw,
                   initialized, values, newRaw, now, ticks, req, got>>

\* main.go:249-251
TrimSample ==
    /\ pc = "commitTrim"
    /\ statsMap' = [statsMap EXCEPT ![name].samples = trim(@)]
    /\ pc' = "commitUnlock"
    /\ UNCHANGED <<metricsSet, ahead, statsMapMu, todo, name, pid, ts, prevRaw,
                   initialized, values, newRaw, now, ticks, req, got, hist>>

\* main.go:252-253
UnlockCommit ==
    /\ pc = "commitUnlock"
    /\ Unlock("range")
    /\ Return
    /\ UNCHANGED <<metricsSet, ahead, statsMapMu, todo, now, ticks, req, hist>>

Collector ==
    \/ StartTick \/ NextName \/ EndTick \/ Resolve
    \/ LockAbsent \/ AppendAbsent \/ TrimAbsent \/ UnlockAbsent
    \/ LockCopy \/ CopyPrev \/ UnlockCopy
    \/ ReadStat \/ ReadStatm \/ ReadIo \/ ReadFd \/ ReadStatus
    \/ LockCommit \/ CommitRaw \/ AppendSample \/ TrimSample \/ UnlockCommit

\* ------------------------------------------------------------- exporter
\* main.go:275-276
ReqStart(r) ==
    /\ req[r].pc = "idle"
    /\ statsMapMu' = statsMapMu \cup {ByReq(r)}
    /\ req' = [req EXCEPT ![r].pc = "range", ![r].todo = Names,
                          ![r].result = EmptyMap]
    /\ UNCHANGED <<metricsSet, ahead, statsMap, pc, todo, name, pid, ts, prevRaw,
                   initialized, values, newRaw, now, ticks, got, hist>>

\* A handler that copies without waiting for the mutex.
ReqLockBarges(r) ==
    /\ req[r].pc = "range"
    /\ \E n \in req[r].todo :
        /\ statsMap' = [statsMap EXCEPT ![n].mu = ByReq(r)]
        /\ req' = [req EXCEPT ![r].pc = "copy", ![r].name = n,
                              ![r].todo = @ \ {n}]
    /\ UNCHANGED <<metricsSet, ahead, statsMapMu, pc, todo, name, pid, ts, prevRaw,
                   initialized, values, newRaw, now, ticks, got, hist>>

\* A handler that locks every series before it copies the first.
ReqLockTakesAll(r) ==
    /\ req[r].pc = "range"
    /\ \A n \in req[r].todo : statsMap[n].mu = NoOne
    /\ \E n \in req[r].todo :
        /\ statsMap' = [x \in Names |->
                          IF x \in req[r].todo
                          THEN [statsMap[x] EXCEPT !.mu = ByReq(r)]
                          ELSE statsMap[x]]
        /\ req' = [req EXCEPT ![r].pc = "copy", ![r].name = n,
                              ![r].todo = @ \ {n}]
    /\ UNCHANGED <<metricsSet, ahead, statsMapMu, pc, todo, name, pid, ts,
                   prevRaw, initialized, values, newRaw, now, ticks, got, hist>>

\* main.go:277-278
ReqLock(r) ==
    /\ req[r].pc = "range"
    /\ \E n \in req[r].todo :
        /\ statsMap[n].mu = NoOne
        /\ statsMap' = [statsMap EXCEPT ![n].mu = ByReq(r)]
        /\ req' = [req EXCEPT ![r].pc = "copy", ![r].name = n,
                              ![r].todo = @ \ {n}]
    /\ UNCHANGED <<metricsSet, ahead, statsMapMu, pc, todo, name, pid, ts, prevRaw,
                   initialized, values, newRaw, now, ticks, got, hist>>

\* A handler that returns without releasing the mutex.
ReqCopyKeepsMutex(r) ==
    /\ req[r].pc = "copy"
    /\ req' = [req EXCEPT ![r].pc = "range", ![r].name = "",
                          ![r].result =
                              Put(@, req[r].name, statsMap[req[r].name].samples)]
    /\ UNCHANGED <<metricsSet, ahead, statsMap, statsMapMu, pc, todo, name, pid, ts,
                   prevRaw, initialized, values, newRaw, now, ticks, got, hist>>

\* A handler that empties the series it has copied.
ReqCopyDrains(r) ==
    /\ req[r].pc = "copy"
    /\ statsMap' = [statsMap EXCEPT ![req[r].name].mu = NoOne,
                                    ![req[r].name].samples = <<>>]
    /\ req' = [req EXCEPT ![r].pc = "range", ![r].name = "",
                          ![r].result =
                              Put(@, req[r].name, statsMap[req[r].name].samples)]
    /\ UNCHANGED <<metricsSet, ahead, statsMapMu, pc, todo, name, pid, ts,
                   prevRaw, initialized, values, newRaw, now, ticks, got, hist>>

\* main.go:279-282: the copy is made and the mutex released.
ReqCopy(r) ==
    /\ req[r].pc = "copy"
    /\ statsMap' = [statsMap EXCEPT ![req[r].name].mu = NoOne]
    /\ req' = [req EXCEPT ![r].pc = "range", ![r].name = "",
                          ![r].result =
                              Put(@, req[r].name, statsMap[req[r].name].samples)]
    /\ UNCHANGED <<metricsSet, ahead, statsMapMu, pc, todo, name, pid, ts, prevRaw,
                   initialized, values, newRaw, now, ticks, got, hist>>

\* main.go:284-287: the map lock is released, the response is written and the
\* handler returns.
ReqRespond(r) ==
    /\ req[r].pc = "range"
    /\ req[r].todo = {}
    /\ statsMapMu' = statsMapMu \ {ByReq(r)}
    /\ req' = [req EXCEPT ![r].pc = "idle", ![r].result = EmptyMap]
    /\ UNCHANGED <<metricsSet, ahead, statsMap, pc, todo, name, pid, ts, prevRaw,
                   initialized, values, newRaw, now, ticks, got, hist>>

Exporter(r) ==
    \/ ReqStart(r) \/ ReqLock(r) \/ ReqCopy(r) \/ ReqRespond(r)

Next == Collector \/ \E r \in Reqs : Exporter(r)

\* ------------------------------------------------------------- runs
\* One name, and a selection of metrics that all come from one kernel source.
Selections ==
    {{"cpu", "minflt", "majflt", "threads"}, {"read_bytes", "write_bytes"},
     {"ctx_switch"}}

Init ==
    \E metrics \in Selections :
        InitWith({"beta"}, metrics, 0, MaxReqs, 0)

Spec == Init /\ [][Next]_vars

\* The same program once Warm ticks have found no process: the series is
\* about to reach its capacity.
InitWarm == InitWith({"beta"}, {"fds"}, Warm, MaxReqs, 0)

SpecWarm == InitWarm /\ [][Next]_vars

\* One name, and selections of metrics that come from two kernel sources.
WideSelections ==
    {{"cpu", "threads", "fds"}, {"rss", "vsize", "fds"},
     {"read_bytes", "write_bytes", "fds"}, {"ctx_switch", "fds"}}

InitWide ==
    \E metrics \in WideSelections :
        InitWith({"beta"}, metrics, 0, MaxReqs, 0)

SpecWide == InitWide /\ [][Next]_vars

\* Two names, with MaxReqs or MaxReqsPair requests at a time.
InitPair ==
    \E k \in {MaxReqs, MaxReqsPair} :
        InitWith({"beta", "gamma"}, {"fds"}, 0, k, 0)

SpecPair == InitPair /\ [][Next]_vars

\* One name, with a wall clock that runs ahead of the ticker.
InitClock == InitWith({"beta"}, {"fds"}, 0, MaxReqs, MaxAhead)

SpecClock == InitClock /\ [][Next]_vars

\* One name, and selections that hold names the catalog does not have: a
\* misspelt name, a name in capitals, the empty name a trailing comma leaves.
UnknownSelections ==
    {{"ctx_switch", "nosuch", ""}, {"fds", "threads", "CPU"}}

InitUnknown ==
    \E metrics \in UnknownSelections :
        InitWith({"beta"}, metrics, 0, MaxReqs, 0)

SpecUnknown == InitUnknown /\ [][Next]_vars

\* One name whose process is restarted under another id now and then.
InitRestart == InitWith({"alpha"}, {"read_bytes", "write_bytes"}, 0, MaxReqs, 0)

SpecRestart == InitRestart /\ [][Next]_vars

\* What the Go runtime grants: a runnable goroutine runs; a goroutine waiting
\* for a sync.Mutex that is released again and again gets it (the mutex hands
\* itself to a starving waiter); the ticker keeps firing; a request handler
\* that holds a mutex goes on to release it.
Fairness ==
    /\ WF_vars(Collector)
    /\ SF_vars(LockAbsent \/ LockCopy \/ LockCommit)
    /\ \A r \in 1..MaxReqsPair : WF_vars(r \in Reqs /\ ReqCopy(r))

FairSpecPair == SpecPair /\ Fairness

\* ------------------------------------------------------------- properties
Min(a, b) == IF a < b THEN a ELSE b

\* The samples appended to the series of n so far, oldest first.
Appended(n) == [i \in 1..Len(hist[n]) |-> hist[n][i].s]

\* The last k elements of sequence q.
LastOf(q, k) == SubSeq(q, Len(q) - k + 1, Len(q))

\* The collector is not inside a critical section of the series of n.
Quiet(n) == statsMap[n].mu # ByCollector

IsNum(tok) == tok.k = "num"

\* The greatest element of a non-empty set of integers.
Max(S) == CHOOSE x \in S : \A y \in S : y <= x

\* The lines of a file that give key a numeric value.
Giving(lines, key) ==
    {i \in 1..Len(lines) :
        lines[i].len = 2 /\ lines[i].key = key /\ IsNum(lines[i].val)}

\* What the kernel sources read in one collectOnce say about metric m: <<v>>
\* when the source of m was read without error, has the shape its reader
\* expects and gives m the number v; <<>> otherwise.
Carried(reads, m) ==
    LET src == SourceOf(m)
    IN IF src \notin DOMAIN reads THEN <<>>
       ELSE IF reads[src].err THEN <<>>
       ELSE IF src = "stat" THEN
            LET f == reads[src].fields
                at == CASE m = "cpu" -> {14, 15}
                        [] m = "minflt" -> {10}
                        [] m = "majflt" -> {12}
                        [] OTHER -> {20}
            IN IF Len(f) >= 20 /\ \A i \in at : IsNum(f[i])
               THEN IF m = "cpu" THEN <<f[14].n + f[15].n>> ELSE <<f[Max(at)].n>>
               ELSE <<>>
       ELSE IF src = "statm" THEN
            LET f == reads[src].fields
                i == IF m = "vsize" THEN 1 ELSE 2
            IN IF Len(f) >= 2 /\ IsNum(f[i]) THEN <<f[i].n>> ELSE <<>>
       ELSE IF src = "io" THEN
            LET l == reads[src].lines
            IN IF Giving(l, m) # {} THEN <<l[Max(Giving(l, m))].val.n>> ELSE <<>>
       ELSE IF src = "fd" THEN <<reads[src].entries>>
       ELSE
            LET l == reads[src].lines
                v == Giving(l, "voluntary_ctxt_switches:")
                nv == Giving(l, "nonvoluntary_ctxt_switches:")
            IN IF v # {} /\ nv # {}
               THEN <<l[Max(v)].val.n + l[Max(nv)].val.n>>
               ELSE <<>>

\* The cumulative metrics the program was asked for.
Deltas == Cumulative \cap metricsSet

\* C1: whenever the collector does not hold the mutex of a series, the series
\* holds at most 300 samples, whatever ticks (process found or absent) and
\* exporter requests came before.
SamplesBounded ==
    \A n \in Names : Quiet(n) => Len(statsMap[n].samples) <= maxSamples

\* C1 witness: a full series that has evicted, after found and absent ticks,
\* while an exporter request is in progress.
SamplesBoundedWitness ==
    \E n \in Names :
        /\ Quiet(n)
        /\ Len(statsMap[n].samples) = maxSamples
        /\ Len(hist[n]) > maxSamples
        /\ \E i \in 1..Len(hist[n]) : hist[n][i].pid # 0
        /\ hist[n][Len(hist[n])].pid = 0
        /\ \E r \in Reqs : req[r].pc # "idle"

\* C2: eviction is FIFO: outside the collector's critical sections a series
\* is exactly the last min(n, 300) of the n samples appended to it, in append
\* order.
EvictionFifo ==
    \A n \in Names :
        Quiet(n) =>
            statsMap[n].samples =
                LastOf(Appended(n), Min(Len(hist[n]), maxSamples))

\* C2 witness: two samples have been evicted and the series holds samples of
\* found and of absent ticks.
EvictionFifoWitness ==
    \E n \in Names :
        /\ Quiet(n)
        /\ Len(hist[n]) >= maxSamples + 2
        /\ \E i \in 1..maxSamples : statsMap[n].samples[i].m # EmptyMap
        /\ statsMap[n].samples[1].t = Len(hist[n]) - maxSamples + 1


\* C3: when two consecutive ticks both find the process and both read raw
\* values r1 then r2 of a cumulative metric, the sample of the second tick
\* carries exactly r2 - r1 for it.
DeltaExact ==
    \A n \in Names : \A i \in 2..Len(hist[n]) : \A m \in Deltas :
        LET a == hist[n][i - 1]
            b == hist[n][i]
        IN (/\ a.pid # 0
            /\ b.pid # 0
            /\ Carried(a.got, m) # <<>>
            /\ Carried(b.got, m) # <<>>)
           => /\ m \in DOMAIN b.s.m
              /\ b.s.m[m] = Carried(b.got, m)[1] - Carried(a.got, m)[1]

\* C3 witness: such a pair of ticks whose raw values differ, the sample being
\* in the series.
DeltaExactWitness ==
    \E n \in Names : \E i \in 2..Len(hist[n]) : \E m \in Deltas :
        LET a == hist[n][i - 1]
            b == hist[n][i]
        IN /\ a.pid # 0
           /\ b.pid # 0
           /\ Carried(a.got, m) # <<>>
           /\ Carried(b.got, m) # <<>>
           /\ Carried(b.got, m) # Carried(a.got, m)
           /\ statsMap[n].samples[i] = b.s

\* C4 (as claimed): a cumulative metric is in a sample only when the tick saw
\* initialized true and previousRaw already holding an entry for it.
EmittedOnlyWithBaseline ==
    \A n \in Names : \A i \in 1..Len(hist[n]) : \A m \in Cumulative :
        m \in DOMAIN hist[n][i].s.m
            => hist[n][i].init /\ m \in DOMAIN hist[n][i].prev

\* C5: the sample of a tick that finds the process right after a tick that
\* recorded an absence holds no cumulative metric.
RebaselinedAfterAbsence ==
    \A n \in Names : \A i \in 2..Len(hist[n]) :
        (hist[n][i - 1].pid = 0 /\ hist[n][i].pid # 0)
            => (DOMAIN hist[n][i].s.m) \cap Cumulative = {}

\* C5 witness: such a tick that read a raw value while previousRaw still held
\* the one from before the absence.
RebaselinedAfterAbsenceWitness ==
    \E n \in Names : \E i \in 2..Len(hist[n]) : \E m \in Deltas :
        /\ hist[n][i - 1].pid = 0
        /\ hist[n][i].pid # 0
        /\ m \in DOMAIN hist[n][i].prev
        /\ Carried(hist[n][i].got, m) # <<>>
        /\ Carried(hist[n][i].got, m)[1] # hist[n][i].prev[m]

\* C6 (as claimed): the tick that reads the raw value of a cumulative metric
\* for the first time since startup leaves the metric out of its sample.
FirstObservationOmitted ==
    \A n \in Names : \A i \in 1..Len(hist[n]) : \A m \in Deltas :
        (/\ Carried(hist[n][i].got, m) # <<>>
         /\ \A j \in 1..(i - 1) : Carried(hist[n][j].got, m) = <<>>)
        => m \notin DOMAIN hist[n][i].s.m

\* C7: a tick whose process id resolves to zero appends exactly one sample,
\* with an empty value map, and leaves initialized false; previousRaw of a
\* series changes only in a collectOnce for that name that found the process.
AbsentTickFrame ==
    /\ [](pc = "absUnlock" =>
            /\ Len(hist[name]) = ticks
            /\ hist[name][ticks].s = Sample(ts, EmptyMap)
            /\ statsMap[name].samples[Len(statsMap[name].samples)]
                 = Sample(ts, EmptyMap)
            /\ ~statsMap[name].initialized)
    /\ [][\A n \in Names :
            statsMap'[n].prevRaw # statsMap[n].prevRaw => (pid # 0 /\ name = n)]_vars

\* C7 witness: an absent tick ends while previousRaw holds a raw value.
AbsentTickFrameWitness ==
    /\ pc = "absUnlock"
    /\ statsMap[name].prevRaw # EmptyMap
    /\ Len(hist[name]) >= 2

\* C8 (as claimed): a field that is missing or does not parse gives the
\* metric no value in the sample and no raw baseline; it is never taken as 0.
ParseFailureOmits ==
    \A n \in Names : \A i \in 1..Len(hist[n]) : \A m \in metricsSet \cap allMetrics :
        LET e == hist[n][i]
        IN (/\ e.pid # 0
            /\ SourceOf(m) \in DOMAIN e.got
            /\ ~e.got[SourceOf(m)].err
            /\ Carried(e.got, m) = <<>>)
           => m \notin DOMAIN e.s.m /\ m \notin DOMAIN e.raw


\* C9: a kernel source whose read fails takes only its own metrics out of the
\* sample of the tick: every selected metric of a source read successfully is
\* derived as usual (an absolute metric as read, a cumulative one against
\* previousRaw once initialized, its raw value kept), and the tick appends its
\* sample.
SourceIsolation ==
    /\ (pc = "range" /\ todo = {}) => \A n \in Names : Len(hist[n]) = ticks
    /\ \A n \in Names : \A i \in 1..Len(hist[n]) : \A m \in metricsSet \cap allMetrics :
        LET e == hist[n][i]
            c == Carried(e.got, m)
        IN e.pid # 0 =>
            /\ e.got[SourceOf(m)].err => m \notin DOMAIN e.s.m
            /\ (c # <<>> /\ m \in Absolute) =>
                    (m \in DOMAIN e.s.m /\ e.s.m[m] = c[1])
            /\ (c # <<>> /\ m \in Cumulative) =>
                    /\ m \in DOMAIN e.raw /\ e.raw[m] = c[1]
                    /\ e.init <=> m \in DOMAIN e.s.m
                    /\ e.init => e.s.m[m] = c[1] - Get(e.prev, m)

\* C9 witness: a tick in which one source failed while a cumulative metric of
\* another source was emitted, and one in which a source failed while an
\* absolute metric of another source was emitted.
SourceIsolationWitness ==
    \E n \in Names : \E i \in 1..Len(hist[n]) : \E j \in 1..Len(hist[n]) :
        /\ \E src \in DOMAIN hist[n][i].got : hist[n][i].got[src].err
        /\ \E m \in Deltas : m \in DOMAIN hist[n][i].s.m
        /\ \E src \in DOMAIN hist[n][j].got : hist[n][j].got[src].err
        /\ \E m \in Absolute : m \in DOMAIN hist[n][j].s.m


\* C10: under fair scheduling every tick ends, and ends with one more sample
\* in the series of every name, whatever resolution misses and read failures
\* occur and whatever requests are being served; the collector takes every
\* tick of the run.
CollectionLive ==
    /\ [](pc = "wait" => \A n \in Names : Len(hist[n]) = ticks)
    /\ [](pc # "wait" => <>(pc = "wait"))
    /\ <>(pc = "wait" /\ Taken = TickCap)

\* C10 witness: the run is over after a tick that missed the process of one
\* name and failed to read a source of the other, two requests in progress.
CollectionLiveWitness ==
    /\ pc = "wait"
    /\ Taken = TickCap
    /\ \E n \in Names : \E o \in Names :
        /\ hist[n][ticks].pid = 0
        /\ hist[o][ticks].pid # 0
        /\ \E src \in DOMAIN hist[o][ticks].got : hist[o][ticks].got[src].err
    /\ \A r \in Reqs : req[r].pc # "idle"
    /\ Cardinality(Reqs) >= 2

\* C11: the copy a request takes of a series is the series as it stands at
\* the step that takes it, a step of the request itself in which the series
\* is neither half appended nor half trimmed: the last min(n, 300) of the n
\* samples appended so far. No later step changes a copy the request holds,
\* whatever the collector appends or evicts.
SnapshotAtomic ==
    [][\A r \in Reqs : \A n \in DOMAIN req'[r].result :
        IF n \in DOMAIN req[r].result
        THEN req'[r].result[n] = req[r].result[n]
        ELSE /\ req[r].pc = "copy"
             /\ req[r].name = n
             /\ req'[r].result[n] = statsMap[n].samples
             /\ req'[r].result[n] =
                    LastOf(Appended(n), Min(Len(hist[n]), maxSamples))]_vars

\* C11 witness: a request holds the copy of a full series to which the
\* collector has since appended, evicting the oldest sample of the copy.
SnapshotAtomicWitness ==
    \E r \in Reqs : \E n \in DOMAIN req[r].result :
        /\ Len(req[r].result[n]) = maxSamples
        /\ Quiet(n)
        /\ Len(hist[n]) > maxSamples
        /\ statsMap[n].samples[1] = req[r].result[n][2]
        /\ statsMap[n].samples[maxSamples].m # EmptyMap

\* C12: in every reachable state, inside the collector's critical sections
\* too, no sample of a series has a timestamp greater than that of the sample
\* after it, the clock never going backwards.
TimestampsOrdered ==
    \A n \in Names : \A i \in 1..(Len(statsMap[n].samples) - 1) :
        statsMap[n].samples[i].t <= statsMap[n].samples[i + 1].t

\* C12 witness: a series of found and absent ticks during which the clock ran
\* ahead, a request having held the mutex after the timestamp of the last
\* sample was taken.
TimestampsOrderedWitness ==
    \E n \in Names :
        LET q == statsMap[n].samples
        IN /\ Len(q) >= 3
           /\ \E i \in 1..(Len(q) - 1) : q[i + 1].t > q[i].t + 1
           /\ \E i \in 1..Len(q) : q[i].m # EmptyMap
           /\ \E i \in 1..Len(q) : q[i].m = EmptyMap
           /\ \E r \in Reqs : n \in DOMAIN req[r].result
                               /\ Len(req[r].result[n]) = Len(q) - 1
           /\ pc = "commitUnlock"

\* C13 (as claimed): a tick that finds the process and reads raw value v of
\* a selected absolute metric puts exactly v in its sample, whatever
\* initialized and previousRaw are; when the tick does not obtain the raw
\* value, the sample has no entry for the metric.
AbsolutePassThrough ==
    \A n \in Names : \A i \in 1..Len(hist[n]) : \A m \in Absolute \cap metricsSet :
        LET e == hist[n][i]
            c == Carried(e.got, m)
        IN e.pid # 0 =>
            IF c # <<>>
            THEN m \in DOMAIN e.s.m /\ e.s.m[m] = c[1]
            ELSE m \notin DOMAIN e.s.m

\* C14: in one collectOnce a kernel source is read at most once: a read
\* adds a source not read before and leaves the earlier reads as they are.
\* A tick that found the process has read exactly the sources of the
\* selected metrics, however many of them share a source, and a tick that
\* did not find it has read none.
ReadOncePerSource ==
    /\ [](\A n \in Names : \A i \in 1..Len(hist[n]) :
            DOMAIN hist[n][i].got =
                IF hist[n][i].pid = 0 THEN {} ELSE Selected)
    /\ [](DOMAIN got \subseteq Selected)
    /\ [][got' # got =>
            \/ got' = EmptyMap
            \/ \E src \in Sources \ DOMAIN got :
                  /\ DOMAIN got' = (DOMAIN got) \cup {src}
                  /\ \A x \in DOMAIN got : got'[x] = got[x]]_vars

\* C14 witness: a tick that found the process with four selected metrics of
\* /proc/<pid>/stat, read that one source and emitted several of them.
ReadOncePerSourceWitness ==
    \E n \in Names : \E i \in 1..Len(hist[n]) :
        /\ hist[n][i].pid # 0
        /\ Cardinality({m \in metricsSet : SourceOf(m) = "stat"}) = 4
        /\ DOMAIN hist[n][i].got = {"stat"}
        /\ Cardinality(DOMAIN hist[n][i].s.m) = 4

\* The selected names the catalog has.
Known == metricsSet \cap allMetrics

\* C15: a selected name that is not in the catalog is never a key of a
\* sample's value map or of previousRaw, and collection goes as the selected
\* catalog names alone determine: the sources read are theirs, and each of
\* them is derived as usual from what was read.
UnknownNamesInert ==
    \A n \in Names :
        /\ DOMAIN statsMap[n].prevRaw \subseteq Known \cap Cumulative
        /\ \A i \in 1..Len(statsMap[n].samples) :
              DOMAIN statsMap[n].samples[i].m \subseteq Known
        /\ \A i \in 1..Len(hist[n]) :
              LET e == hist[n][i]
              IN /\ DOMAIN e.s.m \subseteq Known
                 /\ DOMAIN e.raw \subseteq Known \cap Cumulative
                 /\ DOMAIN e.got =
                        IF e.pid = 0 THEN {} ELSE {SourceOf(m) : m \in Known}
                 /\ \A m \in Known :
                      LET c == Carried(e.got, m)
                      IN (e.pid # 0 /\ c # <<>>) =>
                          IF m \in Absolute
                          THEN m \in DOMAIN e.s.m /\ e.s.m[m] = c[1]
                          ELSE /\ m \in DOMAIN e.raw /\ e.raw[m] = c[1]
                               /\ e.init <=> m \in DOMAIN e.s.m
                               /\ e.init => e.s.m[m] = c[1] - Get(e.prev, m)

\* C15 witness: with unknown names and a cumulative catalog metric selected,
\* a series holds a sample with every selected catalog metric and previousRaw
\* holds a raw value.
UnknownNamesInertWitness ==
    /\ ~(metricsSet \subseteq allMetrics)
    /\ \E n \in Names : \E i \in 1..Len(statsMap[n].samples) :
        /\ DOMAIN statsMap[n].samples[i].m = Known
        /\ Known \cap Cumulative # {}
        /\ statsMap[n].prevRaw # EmptyMap

\* The series whose mutex the collector holds.
HeldByCollector == {n \in Names : statsMap[n].mu = ByCollector}

\* C16: the collector holds no series mutex while it resolves the process
\* id or reads a kernel source; it holds one, that of the name it is
\* collecting, only while it copies previousRaw and initialized and while it
\* commits (previousRaw, initialized, the append, the trim).
NoMutexAcrossIo ==
    /\ pc \in {"wait", "range", "resolve", "absLock", "copyLock", "stat",
               "statm", "io", "fd", "status", "commitLock"}
          => HeldByCollector = {}
    /\ HeldByCollector # {} =>
          /\ HeldByCollector = {name}
          /\ pc \in {"copy", "copyUnlock", "commitRaw", "commitAppend",
                     "commitTrim", "commitUnlock", "absAppend", "absTrim",
                     "absUnlock"}

\* C16 witness: between two source reads of a tick, a request holds the
\* mutex of the series being collected.
NoMutexAcrossIoWitness ==
    /\ pc = "fd"
    /\ got # EmptyMap
    /\ hasMetric("fds")
    /\ \E r \in Reqs : statsMap[name].mu = ByReq(r)

\* The series whose mutex request r holds.
HeldByReq(r) == {n \in Names : statsMap[n].mu = ByReq(r)}

\* The collector is at a Lock of the series it is collecting.
AtLock == pc \in {"absLock", "copyLock", "commitLock"}

\* C17: a request holds no series mutex except, while it copies a series,
\* the mutex of that series; so when the collector finds the mutex it wants
\* taken, the holder is a request at its copy of that very series, whose next
\* step releases the mutex.
OneMutexPerRequest ==
    /\ \A r \in Reqs :
          HeldByReq(r) = IF req[r].pc = "copy" THEN {req[r].name} ELSE {}
    /\ (AtLock /\ statsMap[name].mu # NoOne) =>
          \E r \in Reqs :
              /\ statsMap[name].mu = ByReq(r)
              /\ req[r].pc = "copy"
              /\ req[r].name = name
              /\ ENABLED ReqCopy(r)

\* C17 witness: the collector is at a Lock whose mutex a request holds while
\* another request holds the mutex of the other series.
OneMutexPerRequestWitness ==
    /\ AtLock
    /\ \E r \in Reqs : \E q \in Reqs \ {r} :
        /\ HeldByReq(r) = {name}
        /\ HeldByReq(q) # {}

\* What collectOnce reads and writes of the series of n.
Series(n) ==
    <<statsMap[n].samples, statsMap[n].prevRaw, statsMap[n].initialized>>

\* C18: a series changes only in a step of the collector that holds its
\* mutex, for the name being collected; no step of a request changes it. A
\* name is collected once per tick, one collection at a time, and from the
\* copy of previousRaw and initialized to the commit the series stays as it
\* was copied: the commit finds the values its deltas were computed from.
CollectorOwnsSeries ==
    /\ [][\A n \in Names :
            Series(n)' # Series(n) =>
                /\ statsMap[n].mu = ByCollector
                /\ name = n
                /\ req' = req]_vars
    /\ [](pc \notin {"wait", "range"} => name \in Names \ todo)
    /\ [](pc \in {"copyUnlock", "stat", "statm", "io", "fd", "status",
                   "commitLock", "commitRaw"} =>
            /\ statsMap[name].prevRaw = prevRaw
            /\ statsMap[name].initialized = initialized
            /\ Len(hist[name]) = ticks - 1
            /\ statsMap[name].samples = Appended(name))

\* C18 witness: the collector is about to commit a delta, a request having
\* copied the series since the collector copied previousRaw.
CollectorOwnsSeriesWitness ==
    /\ pc = "commitRaw"
    /\ initialized
    /\ values # EmptyMap
    /\ prevRaw # EmptyMap
    /\ \E r \in Reqs :
          /\ name \in DOMAIN req[r].result
          /\ req[r].result[name] = statsMap[name].samples

\* The tick before tick i of n that stored the raw value tick i took as its
\* baseline for m: the last one that kept a raw value of m; 0 if none did.
BaseTick(n, i, m) ==
    LET js == {j \in 1..(i - 1) : m \in DOMAIN hist[n][j].raw}
    IN IF js = {} THEN 0 ELSE Max(js)

\* The sample of tick i of n carries a delta of m whose baseline was stored
\* from a process with another id.
Spurious(n, i, m) ==
    /\ m \in DOMAIN hist[n][i].s.m
    /\ BaseTick(n, i, m) # 0
    /\ hist[n][BaseTick(n, i, m)].pid # hist[n][i].pid

\* C19: the collector does not track the process id. When two consecutive
\* ticks find the process under different ids and both read the raw value of
\* a cumulative metric, the second emits the new raw value minus the one
\* stored from the old process; a tick that follows under the same new id
\* emits a delta between two raw values of the new process; and between two
\* samples with a delta across process ids the id has changed again.
RestartUntracked ==
    \A n \in Names : \A m \in Deltas :
        /\ \A i \in 2..Len(hist[n]) :
              LET a == hist[n][i - 1]
                  b == hist[n][i]
              IN (/\ a.pid # 0 /\ b.pid # 0 /\ a.pid # b.pid
                  /\ Carried(a.got, m) # <<>> /\ Carried(b.got, m) # <<>>)
                 => /\ m \in DOMAIN b.s.m
                    /\ b.s.m[m] = Carried(b.got, m)[1] - Carried(a.got, m)[1]
                    /\ Spurious(n, i, m)
        /\ \A i \in 3..Len(hist[n]) :
              LET a == hist[n][i - 2]
                  b == hist[n][i - 1]
                  c == hist[n][i]
              IN (/\ a.pid # 0 /\ b.pid # 0 /\ a.pid # b.pid /\ c.pid = b.pid
                  /\ Carried(b.got, m) # <<>> /\ Carried(c.got, m) # <<>>)
                 => /\ m \in DOMAIN c.s.m
                    /\ c.s.m[m] = Carried(c.got, m)[1] - Carried(b.got, m)[1]
                    /\ ~Spurious(n, i, m)
        /\ \A i \in 1..Len(hist[n]) : \A k \in (i + 1)..Len(hist[n]) :
              (Spurious(n, i, m) /\ Spurious(n, k, m))
                 => \E j \in (i + 1)..k :
                       /\ hist[n][j].pid # 0
                       /\ hist[n][j - 1].pid # hist[n][j].pid

\* C19 witness: the process is found under one id, then twice under another;
\* the first sample after the change carries a negative delta, the next one a
\* delta of the new process.
RestartUntrackedWitness ==
    \E n \in Names : \E m \in Deltas :
        /\ Len(hist[n]) >= 3
        /\ hist[n][1].pid # 0
        /\ hist[n][2].pid \notin {0, hist[n][1].pid}
        /\ hist[n][3].pid = hist[n][2].pid
        /\ Spurious(n, 2, m)
        /\ hist[n][2].s.m[m] < 0
        /\ m \in DOMAIN hist[n][3].s.m
        /\ hist[n][3].s.m[m] > 0
        /\ ~Spurious(n, 3, m)

\* The holder of the mutex of series n is not waiting for anything: it is
\* the collector inside a critical section, or a request at its copy.
HolderRuns(n) ==
    \/ statsMap[n].mu = ByCollector /\ name = n /\ ~AtLock /\ ENABLED Collector
    \/ \E q \in Reqs : statsMap[n].mu = ByReq(q) /\ ENABLED ReqCopy(q)

\* C20: neither the collector nor a request is ever stuck. A thread takes a
\* series mutex only while it holds the map lock in read mode, which no
\* writer contends for once the names are registered, and waits for a series
\* mutex only while it holds no other; so a thread that cannot step waits for
\* a series mutex whose holder can step and is about to release it.
NoDeadlock ==
    /\ (AtLock \/ HeldByCollector # {}) => ByCollector \in statsMapMu
    /\ AtLock => HeldByCollector = {}
    /\ pc # "wait" =>
          \/ ENABLED Collector
          \/ AtLock /\ HolderRuns(name)
    /\ \A r \in Reqs :
          /\ req[r].pc # "idle" => ByReq(r) \in statsMapMu
          /\ req[r].pc = "range" => HeldByReq(r) = {}
          /\ req[r].pc = "copy" => ENABLED ReqCopy(r)
          /\ req[r].pc = "range" =>
                \A n \in req[r].todo : statsMap[n].mu = NoOne \/ HolderRuns(n)
          /\ (req[r].pc = "range" /\ req[r].todo = {}) => ENABLED ReqRespond(r)

\* C20 witness: the collector and one request both wait for the mutex of a
\* series that another request holds.
NoDeadlockWitness ==
    /\ AtLock
    /\ \E r \in Reqs : \E q \in Reqs \ {r} :
        /\ statsMap[name].mu = ByReq(r)
        /\ req[q].pc = "range"
        /\ name \in req[q].todo
        /\ \A n \in req[q].todo : statsMap[n].mu # NoOne

====
